---- MODULE Spec2Model ----
(***************************************************************************)
(* Model of scraper.py: the fetch layer (_get), the review and product     *)
(* record extractors, the token-authenticated review pagination session    *)
(* (fetch_reviews_for_shop) and the orchestrator loop of main().           *)
(*                                                                         *)
(* Text is modelled as a sequence of tokens:                               *)
(*   "w"  a run of non-space characters     "s"  a blank or a tab          *)
(*   "on" the literal word on               "d"  a DD/MM/YYYY date         *)
(*   "n"  a newline character                                              *)
(*   "t"  an inner markup tag <...>         "/"  a slash                   *)
(*   "Product_" the literal prefix          "7","8" identifier characters  *)
(***************************************************************************)
EXTENDS Integers, Sequences, FiniteSets, TLC

\* ------------------------------------------------------------------ bounds
MaxShops == 2
MaxPages == 3
MaxRunPages == 2
MaxDivs == 3
MaxEls == 2
MaxName == 5
MaxLen == 4

\* --------------------------------------------------------- program constants
MaxAttempts == 3
BackoffUnit == 3
None == 0 - 1
TODAY == "today"

\* ------------------------------------------------------------ generic helpers
\* the tokens \s matches and str.strip() drops
Space == {"s", "n"}

RECURSIVE LStrip(_, _)
\* str.lstrip(chars): drop the leading tokens that are in the set cs
LStrip(s, cs) ==
  IF s # <<>> /\ Head(s) \in cs THEN LStrip(Tail(s), cs) ELSE s

RECURSIVE RStrip(_, _)
RStrip(s, cs) ==
  IF s # <<>> /\ s[Len(s)] \in cs THEN RStrip(SubSeq(s, 1, Len(s) - 1), cs) ELSE s

\* str.strip(): drop leading and trailing whitespace
Strip(s) == RStrip(LStrip(s, Space), Space)

RECURSIVE RemoveAll(_, _)
\* str.replace(c, "") and re.sub(pattern, "", s): drop every token equal to c
RemoveAll(s, c) ==
  IF s = <<>> THEN <<>>
  ELSE IF Head(s) = c THEN RemoveAll(Tail(s), c)
       ELSE <<Head(s)>> \o RemoveAll(Tail(s), c)

RECURSIVE Concat(_)
\* list.extend applied page after page
Concat(ss) == IF ss = <<>> THEN <<>> ELSE Head(ss) \o Concat(Tail(ss))

\* dict[k] = v on a dict modelled as a function over its keys
Put(d, k, v) == [x \in (DOMAIN d) \cup {k} |-> IF x = k THEN v ELSE d[x]]

AllSpace(s, a, b) == \A i \in a..b : s[i] \in Space

\* --------------------------------------------------------------- _width_to_stars
\* A style attribute is [hasWidth, pct]: whether "width: <pct>%" occurs in it.
\* The rating is kept in tenths of a star: pct / 20 stars = pct / 2 tenths
\* (the modelled percentages are even, so no rounding tie arises).
NoStyle == [hasWidth |-> FALSE, pct |-> 0]

_width_to_stars(style) ==
  IF style.hasWidth THEN style.pct \div 2 ELSE None

\* ---------------------------------------------------------------- _parse_reviewer
\* where a date has to sit for (date)$ to match: $ matches at the end of the
\* string and just before one newline that ends it; 0 when there is no such date
DateEnd(raw) ==
  LET n == Len(raw) IN
  IF n >= 1 /\ raw[n] = "d" THEN n
  ELSE IF n >= 2 /\ raw[n] = "n" /\ raw[n - 1] = "d" THEN n - 1
  ELSE 0

\* the prefixes (.+?) can take before the "on" at k: non-empty, no newline in
\* them (. does not match one), only whitespace left before "on"
OnPrefixes(raw, k) ==
  { m \in 1..(k - 2) :
      /\ AllSpace(raw, m + 1, k - 1)
      /\ \A i \in 1..m : raw[i] # "n" }

\* on_match: ^(.+?)\s+on\s+(date)$ ; the index of "on", or 0 when no match
OnIndex(raw) ==
  LET e == DateEnd(raw)
      ks == { k \in 3..(e - 2) :
                /\ raw[k] = "on"
                /\ AllSpace(raw, k + 1, e - 1)
                /\ OnPrefixes(raw, k) # {} }
  IN IF ks = {} THEN 0 ELSE CHOOSE k \in ks : TRUE

\* group(1) of on_match: the lazy .+? takes the shortest prefix it can
OnName(raw, k) ==
  LET ms == OnPrefixes(raw, k)
      m  == CHOOSE x \in ms : \A y \in ms : x <= y
  IN SubSeq(raw, 1, m)

\* date_match: ^(date)$
DateOnly(raw) == DateEnd(raw) = 1

_parse_reviewer(raw) ==
  LET k == OnIndex(raw) IN
  IF k # 0 THEN <<Strip(OnName(raw, k)), <<"d">> >>
  ELSE IF DateOnly(raw) THEN << <<>>, <<"d">> >>
  ELSE <<Strip(raw), <<>> >>

\* ----------------------------------------------------------------- _make_review_row
_make_review_row(shop, text, raw_name, style) ==
  LET p == _parse_reviewer(Strip(raw_name)) IN
  [ shop_name     |-> shop["name"],
    shop_type     |-> shop["type"],
    reviewer_name |-> p[1],
    review_date   |-> p[2],
    review_text   |-> Strip(text),
    star_rating   |-> _width_to_stars(style),
    scraped_date  |-> TODAY ]

\* ----------------------------------------------------------- review extraction
\* A document as the two strategies see it:
\*   dom : the elements soup.find_all(class_="li-reviews") returns, each with
\*         its three optional sub-elements (text, name, rating);
\*   raw : the blocks block_pat.finditer(html) returns, each with its three
\*         optional sub-matches; matched text may still hold inner tags.
Absent == [present |-> FALSE, val |-> <<>>]
Given(v) == [present |-> TRUE, val |-> v]
AbsentStyle == [present |-> FALSE, val |-> NoStyle]

OrEmpty(sub) == IF sub.present THEN sub.val ELSE <<>>
StyleOrEmpty(sub) == IF sub.present THEN sub.val ELSE NoStyle

\* lines 426-436: one row per element found by class marker
RowFromElement(shop, el) ==
  _make_review_row(shop, OrEmpty(el.text), OrEmpty(el.name), StyleOrEmpty(el.rating))

\* lines 451-461: one row per regex block, inner tags stripped
RowFromBlock(shop, b) ==
  _make_review_row(shop, RemoveAll(OrEmpty(b.text), "t"),
                   RemoveAll(OrEmpty(b.name), "t"), StyleOrEmpty(b.rating))

\* StrategyA with a fault: an element without a text sub-element is skipped
StrategyATextOnly(html, shop) ==
  LET kept == SelectSeq(html.dom, LAMBDA el : el.text.present)
  IN [i \in 1..Len(kept) |-> RowFromElement(shop, kept[i])]

StrategyA(html, shop) == [i \in 1..Len(html.dom) |-> RowFromElement(shop, html.dom[i])]
StrategyB(html, shop) == [i \in 1..Len(html.raw) |-> RowFromBlock(shop, html.raw[i])]

\* _parse_reviews_from_html with a fault: the rows of both strategies are kept
BothStrategies(html, shop) == StrategyA(html, shop) \o StrategyB(html, shop)

_parse_reviews_from_html(html, shop) ==
  IF StrategyA(html, shop) # <<>> THEN StrategyA(html, shop)
  ELSE StrategyB(html, shop)

\* ------------------------------------------------------------ product extraction
\* A product container .dv-item-head[data-content-target] of a shop page:
\*   target : the raw data-content-target attribute
\*   name   : the optional data-content-name attribute
\*   img    : the src of the optional <img> inside it
BASE_URL == "https://www.bleems.com"
COUNTRY == "kw"

\* div.get("data-content-target", "").strip().lstrip("/")
TargetKey(div) == LStrip(Strip(div.target), {"/"})

ProductUrl(target) == <<BASE_URL, COUNTRY>> \o target

RECURSIVE CollectFrom(_, _)
\* the loop of _collect_product_urls with its seen set
CollectFrom(divs, seen) ==
  IF divs = <<>> THEN <<>>
  ELSE LET target == TargetKey(Head(divs)) IN
       IF target # <<>> /\ target \notin seen
       THEN << [prod_url |-> ProductUrl(target), target_key |-> target] >>
            \o CollectFrom(Tail(divs), seen \cup {target})
       ELSE CollectFrom(Tail(divs), seen)

_collect_product_urls(shop_html) == CollectFrom(shop_html.containers, {})

\* div_lookup[key] = div, later containers overwriting earlier ones
DivLookup(shop_html) ==
  LET divs == shop_html.containers
      keys == { TargetKey(divs[i]) : i \in 1..Len(divs) }
      last(k) == CHOOSE i \in 1..Len(divs) :
                   /\ TargetKey(divs[i]) = k
                   /\ \A j \in 1..Len(divs) : TargetKey(divs[j]) = k => j <= i
  IN [k \in keys |-> divs[last(k)]]

\* A JSON value of the parsed trackJson: [t, v], t the JSON type, v its text
\* (for a list, v is the sequence of its string elements).
JStr(v) == [t |-> "str", v |-> v]
JNum(v) == [t |-> "num", v |-> v]
JList(v) == [t |-> "list", v |-> v]

\* data.get(key, default)
Get(data, key, default) == IF key \in DOMAIN data THEN data[key] ELSE default

RECURSIVE Join(_)
\* ", ".join(list)
Join(l) ==
  IF l = <<>> THEN <<>>
  ELSE IF Len(l) = 1 THEN Head(l)
  ELSE Head(l) \o <<", ">> \o Join(Tail(l))

JoinOrStr(x) == IF x.t = "list" THEN Join(x.v) ELSE x.v

\* data.get("product", "").strip() raises AttributeError unless the value is a
\* string
RowRaises(data) == Get(data, "product", JStr(<<>>)).t # "str"

_row_from_track_json(data, shop) ==
  [ shop_name    |-> shop["name"],
    shop_type    |-> shop["type"],
    product_id   |-> Get(data, "content_id", JStr(<<>>)).v,
    product_name |-> Strip(Get(data, "product", JStr(<<>>)).v),
    category     |-> Get(data, "category", JStr(<<>>)).v,
    brand        |-> Get(data, "brand", JStr(<<>>)).v,
    price        |-> Get(data, "product_price", JStr(<<>>)).v,
    currency     |-> Get(data, "currency", JStr(<<"KWD">>)).v,
    occasion     |-> Get(data, "occasion", JStr(<<>>)).v,
    product_type |-> Get(data, "product_type", JStr(<<>>)).v,
    sub_category |-> Get(data, "sub_category", JStr(<<>>)).v,
    flavors      |-> JoinOrStr(Get(data, "flavor", JList(<<>>))),
    colors       |-> JoinOrStr(Get(data, "color", JList(<<>>))),
    product_url  |-> Get(data, "product_url", JStr(<<>>)).v,
    image_url    |-> Get(data, "product_image_url", JStr(<<>>)).v ]

\* lines 331-351: the minimal row built from the listing container
MinimalRow(lookup, pair, shop) ==
  LET found == pair.target_key \in DOMAIN lookup
      div   == lookup[pair.target_key]
  IN
  [ shop_name    |-> shop["name"],
    shop_type    |-> shop["type"],
    product_id   |-> IF found THEN RemoveAll(OrEmpty(div.name), "Product_") ELSE <<>>,
    product_name |-> <<>>,
    category     |-> <<>>,
    brand        |-> <<shop["name"]>>,
    price        |-> <<>>,
    currency     |-> <<"KWD">>,
    occasion     |-> <<>>,
    product_type |-> <<>>,
    sub_category |-> <<>>,
    flavors      |-> <<>>,
    colors       |-> <<>>,
    product_url  |-> pair.prod_url,
    image_url    |-> IF found THEN OrEmpty(div.img) ELSE <<>> ]

\* The response to one product detail request:
\*   kind "error"  : requests.RequestException
\*   kind "status" : a response whose status code is not 200
\*   kind "page"   : a 200 response; track is the trackJson block of the page:
\*                   "absent", "unparseable", or "parsed" with its dict in data
\* _extract_track_json: the parsed dict, or None (has |-> FALSE)
NoData == [has |-> FALSE, data |-> <<>>]

_extract_track_json(page) ==
  IF page.track = "parsed" THEN [has |-> TRUE, data |-> page.data] ELSE NoData

\* lines 319-326
DetailData(resp) ==
  IF resp.kind = "page" THEN _extract_track_json(resp) ELSE NoData

\* "if data:" -- None and the empty dict are both falsy
Truthy(d) == d.has /\ DOMAIN d.data # {}

\* lines 353-366: the image path stored on the row
S3ImagePath(role, id) == <<"images", role>> \o id

WithImage(item, uploaded) ==
  Put(item, "s3_image_path",
      IF item.image_url # <<>> /\ uploaded
      THEN S3ImagePath("products", item.product_id) ELSE <<>>)

\* ---------------------------------------------------------------- _get_csrf_token
\* A page as the token search sees it: its <input ...> tags in document order,
\* each [named, value]: whether the tag text holds __RequestVerificationToken,
\* and the text of its value="..." attribute ("" when the pattern finds none).
RECURSIVE AnyInputValue(_)
\* _get_csrf_token with a fault: the value of any input tag is taken
AnyInputValue(tags) ==
  IF tags = <<>> THEN ""
  ELSE IF Head(tags).value # "" THEN Head(tags).value
  ELSE AnyInputValue(Tail(tags))

RECURSIVE _get_csrf_token(_)
_get_csrf_token(tags) ==
  IF tags = <<>> THEN ""
  ELSE IF Head(tags).named /\ Head(tags).value # "" THEN Head(tags).value
  ELSE _get_csrf_token(Tail(tags))

\* ----------------------------------------------------------------- _js_obj_to_json
\* JavaScript text is a sequence of characters; a few runs of characters that
\* the normalizer only ever treats as a whole are one element:
\*   "decodeHTMLString("   "amp;"   "lt;"   "quot;"
\* "s" is a blank, "a" any character that is special to no step.
SQ == "'"
DQ == "\""
BS == "\\"
Quotes == {SQ, DQ}

RECURSIVE EscapeJson(_)
\* the body of json.dumps(str): a backslash is doubled (a quote cannot occur
\* in group(1) of the pattern of step 1)
EscapeJson(t) ==
  IF t = <<>> THEN <<>>
  ELSE (IF Head(t) = BS THEN <<BS, BS>> ELSE <<Head(t)>>) \o EscapeJson(Tail(t))

json_dumps(t) == <<DQ>> \o EscapeJson(t) \o <<DQ>>

\* decodeHTMLString\(['"]([^'"]*?)['"]\) matched at p: the index of the quote
\* that closes the argument, or 0 when the pattern does not match at p
ClosingQuote(t, p) ==
  IF t[p] = "decodeHTMLString(" /\ p + 1 <= Len(t) /\ t[p + 1] \in Quotes
  THEN LET qs == { q \in (p + 2)..(Len(t) - 1) :
                     /\ t[q] \in Quotes
                     /\ \A x \in (p + 2)..(q - 1) : t[x] \notin Quotes
                     /\ t[q + 1] = ")" }
       IN IF qs = {} THEN 0 ELSE CHOOSE q \in qs : TRUE
  ELSE 0

RECURSIVE DecodeFrom(_, _)
DecodeFrom(t, p) ==
  IF p > Len(t) THEN <<>>
  ELSE LET q == ClosingQuote(t, p) IN
       IF q # 0 THEN json_dumps(SubSeq(t, p + 2, q - 1)) \o DecodeFrom(t, q + 2)
       ELSE <<t[p]>> \o DecodeFrom(t, p + 1)

\* step 1, lines 191-196
DecodeCalls(t) == DecodeFrom(t, 1)

RECURSIVE Replace(_, _, _)
\* str.replace(old, new): every occurrence, left to right, no rescan
Replace(t, old, new) ==
  IF t = <<>> THEN <<>>
  ELSE IF Len(t) >= Len(old) /\ SubSeq(t, 1, Len(old)) = old
  THEN new \o Replace(SubSeq(t, Len(old) + 1, Len(t)), old, new)
  ELSE <<Head(t)>> \o Replace(Tail(t), old, new)

\* the entity map in its iteration order; the emoji references and &gt;
\* behave as &lt; does
_HTML_ENTITIES ==
  << [ent |-> <<"&", "amp;">>, char |-> <<"&">>],
     [ent |-> <<"&", "lt;">>, char |-> <<"<">>],
     [ent |-> <<"&", "quot;">>, char |-> <<DQ>>] >>

RECURSIVE ReplaceEach(_, _)
ReplaceEach(t, ents) ==
  IF ents = <<>> THEN t
  ELSE ReplaceEach(Replace(t, Head(ents).ent, Head(ents).char), Tail(ents))

\* step 2, lines 198-200
ReplaceEntities(t) == ReplaceEach(t, _HTML_ENTITIES)

\* while j < len(raw) with a fault: the bound is off by one
CollectsPastEnd(j, n) == j <= n

\* line 216: while j < len(raw)
MoreToCollect(j, n) == j < n

\* raw[k] with the 0-based k of the source
At(t, k) == t[k + 1]
InRange(t, k) == k \in 0..(Len(t) - 1)

RECURSIVE DropTrailingCommas(_)
\* step 4, line 236: re.sub(r",\s*([}\]])", r"\1", raw)
DropTrailingCommas(t) ==
  IF t = <<>> THEN <<>>
  ELSE IF Head(t) = ","
  THEN LET rest == LStrip(Tail(t), Space) IN
       IF rest # <<>> /\ Head(rest) \in {"}", "]"}
       THEN DropTrailingCommas(rest)
       ELSE <<",">> \o DropTrailingCommas(Tail(t))
  ELSE <<Head(t)>> \o DropTrailingCommas(Tail(t))

\* ---------------------------------------------------------------------- json.loads
RECURSIVE StringBody(_, _, _)
\* the body of a JSON string read from index p on: [ok, val, next]
StringBody(t, p, acc) ==
  IF p > Len(t) THEN [ok |-> FALSE, val |-> acc, next |-> p]
  ELSE IF t[p] = DQ THEN [ok |-> TRUE, val |-> acc, next |-> p + 1]
  ELSE IF t[p] = BS
  THEN IF p + 1 <= Len(t) /\ t[p + 1] \in {DQ, BS, "/"}
       THEN StringBody(t, p + 2, Append(acc, t[p + 1]))
       ELSE [ok |-> FALSE, val |-> acc, next |-> p]
  ELSE StringBody(t, p + 1, Append(acc, t[p]))

NotJson == [ok |-> FALSE, key |-> <<>>, value |-> <<>>]

\* json.loads on the text of an object with one string member, {"key":"value"};
\* ok is FALSE for a text that is no such object
json_loads(t) ==
  IF Len(t) >= 2 /\ t[1] = "{" /\ t[2] = DQ
  THEN LET k == StringBody(t, 3, <<>>) IN
       IF k.ok /\ k.next + 1 <= Len(t) /\ t[k.next] = ":" /\ t[k.next + 1] = DQ
       THEN LET v == StringBody(t, k.next + 2, <<>>) IN
            IF v.ok /\ v.next = Len(t) /\ t[v.next] = "}"
            THEN [ok |-> TRUE, key |-> k.val, value |-> v.val]
            ELSE NotJson
       ELSE NotJson
  ELSE NotJson

\* ------------------------------------------------------------------- input sets
EmptyDoc == [dom |-> <<>>, raw |-> <<>>]
Width(p) == [present |-> TRUE, val |-> [hasWidth |-> TRUE, pct |-> p]]
Unsized == [present |-> TRUE, val |-> NoStyle]

El(t, n, r) == [text |-> t, name |-> n, rating |-> r]

ElFull  == El(Given(<<"s", "w", "s">>), Given(<<"w", "s", "on", "s", "d">>), Width(80))
ElDate  == El(Absent, Given(<<"d">>), AbsentStyle)
ElEmpty == El(Absent, Absent, AbsentStyle)
ElText  == El(Given(<<"w">>), Absent, Unsized)
ElName  == El(Given(<<>>), Given(<<"s", "w", "s">>), AbsentStyle)
BlockBare == El(Absent, Absent, AbsentStyle)
BlockName == El(Absent, Given(<<"t", "d">>), AbsentStyle)
BlockTagged == El(Given(<<"t", "w", "t">>), Given(<<"w">>), Width(100))

\* the fragments a review page (or a shop page) can carry in the run
Fragments ==
  { EmptyDoc,
    [dom |-> <<ElFull>>, raw |-> <<>>],
    [dom |-> <<ElDate, ElEmpty>>, raw |-> <<BlockTagged>>],
    [dom |-> <<>>, raw |-> <<BlockTagged>>] }

Div(t, n, i) == [target |-> t, name |-> n, img |-> i]

DivA  == Div(<<"a">>, Given(<<"Product_", "7">>), Given(<<"i.jpg">>))
DivA2 == Div(<<"/", "a">>, Absent, Absent)
DivB  == Div(<<"b">>, Given(<<"8">>), Absent)
DivE  == Div(<<"s", "/">>, Given(<<"Product_", "8">>), Given(<<"i.jpg">>))
DivP  == Div(<<"s", "b">>, Given(<<"Product_">>), Absent)

ShopPage(c, doc, on, count) ==
  [containers |-> c, dom |-> doc.dom, raw |-> doc.raw, rating_on |-> on, count |-> count]

\* rating_on is the .rating-on element of the rating span of a shop page
\* (absent when the span or the element is missing), count the number read
\* from its .fw-bold element (None when there is none)

GoodData == [content_id |-> JStr(<<"9">>), product |-> JStr(<<"s", "w">>),
             flavor |-> JList(<< <<"w">>, <<"w">> >>),
             product_image_url |-> JStr(<<"t.jpg">>)]
NumData == [content_id |-> JStr(<<"9">>), product |-> JNum(<<"5">>)]

DetailResponses ==
  { [kind |-> "error", track |-> "absent", data |-> <<>>],
    [kind |-> "status", track |-> "parsed", data |-> GoodData],
    [kind |-> "page", track |-> "absent", data |-> <<>>],
    [kind |-> "page", track |-> "unparseable", data |-> <<>>],
    [kind |-> "page", track |-> "parsed", data |-> <<>>],
    [kind |-> "page", track |-> "parsed", data |-> GoodData],
    [kind |-> "page", track |-> "parsed", data |-> NumData] }

\* the product detail responses met in a whole run
RunDetailResponses ==
  { [kind |-> "error", track |-> "absent", data |-> <<>>],
    [kind |-> "page", track |-> "parsed", data |-> GoodData],
    [kind |-> "page", track |-> "parsed", data |-> NumData] }

\* the shop pages met in a whole run
RunShopPages ==
  { ShopPage(<<DivA>>, [dom |-> <<ElFull>>, raw |-> <<>>], Width(80), 12),
    ShopPage(<<>>, EmptyDoc, AbsentStyle, None) }

Tag(n, v) == [named |-> n, value |-> v]

\* the freshly fetched shop page of a pagination session
FreshPages ==
  { <<>>,
    <<Tag(TRUE, "")>>,
    <<Tag(FALSE, "t1")>>,
    <<Tag(FALSE, "t1"), Tag(TRUE, "t2")>>,
    <<Tag(TRUE, ""), Tag(TRUE, "t1")>> }

\* The response to one LoadReviews request:
\*   kind "error"  : requests.RequestException
\*   kind "status" : resp.ok is false
\*   kind "text"   : a body json.loads rejects; doc is the body read as markup
\*   kind "value"  : a JSON body that is not an object (a list, a string, ...)
\*   kind "object" : a JSON object; j holds the keys it has
PageResponses ==
  { [kind |-> k, doc |-> EmptyDoc, j |-> <<>>] : k \in {"error", "status", "value"} }
  \cup { [kind |-> "text", doc |-> d, j |-> <<>>] : d \in Fragments }
  \cup { [kind |-> "object", doc |-> EmptyDoc, j |-> [html |-> d, canLoad |-> c]] :
           d \in Fragments, c \in BOOLEAN }
  \cup { [kind |-> "object", doc |-> EmptyDoc, j |-> [html |-> d]] : d \in Fragments }
  \cup { [kind |-> "object", doc |-> EmptyDoc, j |-> [canLoad |-> TRUE]] }

\* the fresh pages and the review page responses met in a whole run
RunFreshPages ==
  { <<>>, <<Tag(TRUE, "t1")>>, <<Tag(FALSE, "t1"), Tag(TRUE, "t2")>> }

RunPageResponses ==
  { [kind |-> k, doc |-> EmptyDoc, j |-> <<>>] : k \in {"error", "value"} }
  \cup { [kind |-> "object", doc |-> EmptyDoc,
          j |-> [html |-> [dom |-> <<ElFull>>, raw |-> <<>>], canLoad |-> c]] :
          c \in BOOLEAN }
  \cup { [kind |-> "object", doc |-> EmptyDoc,
          j |-> [html |-> EmptyDoc, canLoad |-> TRUE]] }

ListedShop(n, t, s, l) ==
  [name |-> n, type |-> t, slug |-> s, rating |-> 45, ratings_count |-> 3,
   url |-> s, logo_url |-> l]

\* the shops a listing can hold
ShopPool ==
  { ListedShop("A", "Flowers", "a", "l.png"),
    ListedShop("B", "Flowers", "", ""),
    ListedShop("C", "", "c", "") }

RECURSIVE SeqsUpTo(_, _)
SeqsUpTo(S, n) ==
  IF n = 0 THEN { <<>> }
  ELSE SeqsUpTo(S, n - 1)
       \cup { Append(q, x) : q \in { r \in SeqsUpTo(S, n - 1) : Len(r) = n - 1 }, x \in S }

Listings == SeqsUpTo(ShopPool, MaxShops)

\* the strings _parse_reviewer is checked on
NameTokens == {"w", "s", "n", "on", "d"}
ReviewerStrings == SeqsUpTo(NameTokens, MaxName)

\* an object literal with one single-quoted member, and a JSON text with one
\* double-quoted member
Literal(c) == <<"{", SQ, "a", SQ, ":", SQ>> \o c \o <<SQ, "}">>
JsonText(c) == <<"{", DQ, "a", DQ, ":", DQ>> \o c \o <<DQ, "}">>

Literals == { Literal(c) : c \in SeqsUpTo({"a", DQ, ",", "}"}, MaxLen) }
JsonTexts == { JsonText(c) : c \in SeqsUpTo({"a", SQ, ",", "}"}, MaxLen) }

\* the texts _js_obj_to_json is checked on: every short text over the
\* characters its scan tells apart, the two families above, and texts with
\* decodeHTMLString calls and entities
JsTexts ==
  SeqsUpTo({SQ, DQ, BS, "a", ",", "}"}, MaxLen)
  \cup Literals
  \cup JsonTexts
  \cup { <<DQ, SQ, DQ, SQ, DQ>>,
         <<"{", SQ, "a", SQ, ":", "decodeHTMLString(", SQ, "a", BS, "&", "amp;", SQ, ")",
           ",", "s", "}">>,
         <<"decodeHTMLString(", DQ, "a", SQ, ")", "decodeHTMLString(", SQ, "a", ")">>,
         <<"&", "amp;", "amp;">>,
         <<"&", "amp;", "lt;">>,
         <<SQ, "&", "quot;", SQ>> }

\* the shop pages product extraction is checked on
ItemPages ==
  { ShopPage(c, EmptyDoc, AbsentStyle, None) :
      c \in SeqsUpTo({DivA, DivA2, DivB, DivE, DivP}, MaxDivs) }

\* the documents review extraction is checked on
ReviewDocs ==
  { ShopPage(<<>>, [dom |-> d, raw |-> r], AbsentStyle, None) :
      d \in SeqsUpTo({ElFull, ElDate, ElEmpty, ElText, ElName}, MaxEls),
      r \in SeqsUpTo({BlockTagged, BlockBare, BlockName}, MaxEls) }

\* sorted() over the type keys the pool can produce
TypeOrder == <<"Flowers", "Other">>

Categories == {"", "Flowers", "Sweets"}

\* ------------------------------------------------------------------------ state
VARIABLES
  pc,             \* position of the single thread of control
  exc,            \* the exception that ended the process, "" while none has
  args,           \* parsed command line: [category, list_categories]
  by_type,        \* main: type -> shops of that type, in listing order
  types,          \* main: sorted(by_type) as iterated by the type loop
  ti, si,         \* main: index of the current type and of the current shop
  shop,           \* the shop dict being processed
  all_items, all_reviews, enriched,   \* main: the tables of the current type
  uploaded,       \* the tables handed to storage so far, <<type, table>>
  get_for,        \* which call of _get is running: "listing" or "shop"
  attempt,        \* _get: the loop variable
  slept,          \* _get: the time.sleep() arguments of the running call
  last_call,      \* the network call finished last: [kind, attempts, outcome]
  html,           \* fetch_shop_data: the shop page
  pairs, div_lookup, pi, items,       \* fetch_shop_items: locals
  data,           \* fetch_shop_items: the dict of the product fetched last
  structured,     \* fetch_shop_items: products whose detail page gave a dict
  reviews,        \* fetch_shop_data: the shop's reviews
  rev_session,    \* fetch_reviews_for_shop: identity of its requests.Session()
  session_count,  \* number of Session objects created so far
  fresh_html,     \* fetch_reviews_for_shop: the input tags of its shop page
  csrf_token, page_no, all_rows, resp, can_load, rows,  \* its other locals
  session_state,  \* state of the pagination session of the current shop
  sessions,       \* every session started: [id, shop, token]
  requests,       \* every LoadReviews request sent: [id, shop, token, page]
  page_rows,      \* rows extracted from each page of the current session
  text_in,        \* the str argument of the text function under way
  raw_text,       \* _js_obj_to_json: its local raw, reassigned by steps 1 and 2
  scan_i, scan_j, \* _js_obj_to_json: the indices i and j of the scan (0-based)
  in_double,      \* _js_obj_to_json: the flag of the scan
  result, buf,    \* _js_obj_to_json: the output list and the run collected
  returned,       \* the value the text function returned
  applied,        \* how many times _js_obj_to_json has returned
  first_ret       \* what its first application returned

vars == << pc, exc, args, by_type, types, ti, si, shop, all_items, all_reviews,
           enriched, uploaded, get_for, attempt, slept, last_call, html, pairs,
           div_lookup, pi, items, data, structured, reviews, rev_session,
           session_count, fresh_html, csrf_token, page_no, all_rows, resp, can_load, rows,
           session_state, sessions, requests, page_rows, text_in, raw_text,
           scan_i, scan_j, in_double, result, buf, returned, applied,
           first_ret >>

mainVars == << args, by_type, types, ti, si, all_items, all_reviews, enriched,
               uploaded >>
getVars == << get_for, attempt, slept >>
itemVars == << pairs, div_lookup, pi, items, data, structured >>
sessionVars == << rev_session, session_count, fresh_html, csrf_token, page_no, all_rows,
                  resp, can_load, rows, session_state, sessions, requests,
                  page_rows >>

scanVars == << raw_text, scan_i, scan_j, in_double, result, buf >>
textVars == << text_in, scanVars, returned, applied, first_ret >>
scrapeVars == << mainVars, shop, getVars, last_call, html, itemVars, reviews,
                sessionVars >>

NoShop == ListedShop("", "", "", "")
NoPage == ShopPage(<<>>, EmptyDoc, AbsentStyle, None)
NoCall == [kind |-> "", attempts |-> 0, outcome |-> ""]
NoResp == [kind |-> "", doc |-> EmptyDoc, j |-> <<>>]
Call(k, n, o) == [kind |-> k, attempts |-> n, outcome |-> o]

Defaults ==
  /\ exc = ""
  /\ by_type = <<>> /\ types = <<>> /\ ti = 0 /\ si = 0
  /\ all_items = <<>> /\ all_reviews = <<>> /\ enriched = <<>>
  /\ uploaded = <<>>
  /\ get_for = "" /\ attempt = 0 /\ slept = <<>>
  /\ last_call = NoCall
  /\ reviews = <<>>
  /\ rev_session = 0 /\ session_count = 0
  /\ fresh_html = <<>>
  /\ data = NoData
  /\ csrf_token = "" /\ page_no = 0 /\ all_rows = <<>> /\ resp = NoResp
  /\ can_load = FALSE /\ rows = <<>>
  /\ session_state = "NONE" /\ sessions = {} /\ requests = {}
  /\ page_rows = <<>>

\* no text function has been called
TextDefaults ==
  /\ text_in = <<>> /\ raw_text = <<>>
  /\ scan_i = 0 /\ scan_j = 0 /\ in_double = FALSE
  /\ result = <<>> /\ buf = <<>>
  /\ returned = <<>> /\ applied = 0 /\ first_ret = <<>>

Init ==
  /\ pc = "main"
  /\ args \in [category : Categories, list_categories : BOOLEAN]
  /\ shop = NoShop
  /\ html = NoPage
  /\ pairs = <<>> /\ div_lookup = <<>> /\ pi = 0 /\ items = <<>>
  /\ structured = 0
  /\ Defaults
  /\ TextDefaults

\* --------------------------------------------------------------------- _get
\* the call: for attempt in range(1, 4)
CallGet(who) ==
  /\ pc' = "get"
  /\ get_for' = who
  /\ attempt' = 1
  /\ slept' = <<>>

\* time.sleep(3 * attempt)
Backoff(n) == BackoffUnit * n

\* one pass of the loop body of _get
GetAttempt ==
  /\ pc = "get"
  /\ \E ok \in BOOLEAN :
       IF ok
       THEN /\ pc' = "got"
            /\ last_call' = Call(get_for, attempt, "returned")
            /\ UNCHANGED << attempt, slept >>
       ELSE IF attempt < MaxAttempts
       THEN /\ slept' = Append(slept, Backoff(attempt))
            /\ attempt' = attempt + 1
            /\ UNCHANGED << pc, last_call >>
       ELSE /\ pc' = "get_raised"
            /\ last_call' = Call(get_for, attempt, "raised")
            /\ UNCHANGED << attempt, slept >>
  /\ UNCHANGED << exc, mainVars, shop, get_for, html, itemVars, reviews,
                  sessionVars >>
  /\ UNCHANGED textVars

\* --------------------------------------------------------------------- main
\* lines 776-800: up to the call of fetch_all_shops
MainStart ==
  /\ pc = "main"
  /\ CallGet("listing")
  /\ UNCHANGED << exc, mainVars, shop, last_call, html, itemVars, reviews,
                  sessionVars >>
  /\ UNCHANGED textVars

TypeKey(sh) == IF sh["type"] = "" THEN "Other" ELSE sh["type"]

\* lines 806-809: by_type.setdefault(t, []).append(shop)
GroupByType(listing) ==
  LET keys == { TypeKey(listing[i]) : i \in 1..Len(listing) }
  IN [t \in keys |-> SelectSeq(listing, LAMBDA sh : TypeKey(sh) = t)]

SortedKeys(keys) == SelectSeq(TypeOrder, LAMBDA t : t \in keys)

\* the RuntimeError of _get leaves fetch_all_shops and main uncaught
ListingUnavailable ==
  /\ pc = "get_raised" /\ get_for = "listing"
  /\ pc' = "crashed"
  /\ exc' = "RuntimeError"
  /\ UNCHANGED << mainVars, shop, getVars, last_call, html, itemVars, reviews,
                  sessionVars >>
  /\ UNCHANGED textVars

\* fetch_all_shops returns its parsed listing; main lines 782-821
ListingFetched ==
  /\ pc = "got" /\ get_for = "listing"
  /\ \E listing \in Listings :
       LET grouped == GroupByType(listing)
           wanted  == args.category
           kept    == IF wanted = "" THEN DOMAIN grouped ELSE {wanted}
       IN
       IF args.list_categories \/ listing = <<>>
          \/ (wanted # "" /\ wanted \notin DOMAIN grouped)
       THEN /\ pc' = "exit"
            /\ UNCHANGED << by_type, types, ti >>
       ELSE /\ by_type' = [t \in kept |-> grouped[t]]
            /\ types' = SortedKeys(kept)
            /\ ti' = 1
            /\ pc' = "type_loop"
  /\ UNCHANGED << exc, args, si, shop, all_items, all_reviews, enriched,
                  uploaded, getVars, last_call, html, itemVars, reviews,
                  sessionVars >>
  /\ UNCHANGED textVars

\* lines 823-830: the head of the type loop
NextType ==
  /\ pc = "type_loop"
  /\ IF ti > Len(types)
     THEN /\ pc' = "exit"
          /\ UNCHANGED << si, all_items, all_reviews, enriched >>
     ELSE /\ all_items' = <<>> /\ all_reviews' = <<>> /\ enriched' = <<>>
          /\ si' = 1
          /\ pc' = "shop_loop"
  /\ UNCHANGED << exc, args, by_type, types, ti, uploaded, shop, getVars,
                  last_call, html, itemVars, reviews, sessionVars >>
  /\ UNCHANGED textVars

\* lines 832-841: the head of the shop loop
NextShop ==
  /\ pc = "shop_loop"
  /\ LET shops == by_type[types[ti]] IN
     IF si > Len(shops)
     THEN /\ pc' = "upload_shops"
          /\ UNCHANGED << si, shop, enriched, getVars, session_state >>
     ELSE IF shops[si]["slug"] = ""
     THEN /\ shop' = Put(shops[si], "s3_image_path", <<>>)
          /\ enriched' = Append(enriched, shop')
          /\ si' = si + 1
          /\ UNCHANGED << pc, getVars, session_state >>
     ELSE /\ shop' = shops[si]
          /\ session_state' = "NONE"
          /\ CallGet("shop")
          /\ UNCHANGED << si, enriched >>
  /\ UNCHANGED << exc, args, by_type, types, ti, all_items, all_reviews,
                  uploaded, last_call, html, itemVars, reviews, rev_session,
                  session_count, fresh_html, csrf_token, page_no, all_rows,
                  resp, can_load, rows, sessions, requests, page_rows >>
  /\ UNCHANGED textVars

\* ------------------------------------------------------------- fetch_shop_data
\* main lines 841-847 after fetch_shop_data returned (its_items, its_reviews, sh)
\* the locals of fetch_shop_data and of the functions it called are gone
Collect(its_items, its_reviews, sh) ==
  /\ all_items' = all_items \o its_items
  /\ all_reviews' = all_reviews \o its_reviews
  /\ enriched' = Append(enriched, sh)
  /\ si' = si + 1
  /\ pc' = "shop_loop"
  /\ get_for' = "" /\ attempt' = 0 /\ slept' = <<>>
  /\ html' = NoPage
  /\ pairs' = <<>> /\ div_lookup' = <<>> /\ pi' = 0 /\ items' = <<>>
  /\ data' = NoData /\ structured' = 0
  /\ reviews' = <<>>
  /\ rev_session' = 0 /\ fresh_html' = <<>> /\ csrf_token' = "" /\ page_no' = 0
  /\ all_rows' = <<>> /\ resp' = NoResp /\ can_load' = FALSE /\ rows' = <<>>
  /\ page_rows' = <<>>

\* lines 640-642: _get raised, the shop is returned as it came
ShopPageFailed ==
  /\ pc = "get_raised" /\ get_for = "shop"
  /\ Collect(<<>>, <<>>, shop)
  /\ UNCHANGED << exc, args, by_type, types, ti, uploaded, shop, last_call,
                  session_count, session_state, sessions, requests >>
  /\ UNCHANGED textVars

\* lines 648-657: the rating and the count read from the shop page
Refreshed(sh, page) ==
  LET r == IF page.rating_on.present
           THEN Put(sh, "rating", _width_to_stars(page.rating_on.val)) ELSE sh
  IN IF page.count # None THEN Put(r, "ratings_count", page.count) ELSE r

\* WithLogo with a fault: the cleaned name used for the image path is written
\* back to the shop
WithLogoRenaming(sh, stored) ==
  Put(Put(sh, "name", "clean"), "s3_image_path",
      IF sh["logo_url"] # "" /\ stored THEN S3ImagePath("logo", <<"clean">>)
      ELSE <<>>)

\* lines 660-676: the logo; upload_image_to_s3 returns "" on any failure
WithLogo(sh, stored) ==
  Put(sh, "s3_image_path",
      IF sh["logo_url"] # "" /\ stored THEN S3ImagePath("logo", <<sh["name"]>>)
      ELSE <<>>)

\* lines 644-678 and 301-315: the shop page is parsed, the shop dict enriched
\* and fetch_shop_items entered
ShopPageFetched ==
  /\ pc = "got" /\ get_for = "shop"
  /\ \E page \in RunShopPages, stored \in BOOLEAN :
       /\ html' = page
       /\ shop' = WithLogo(Refreshed(shop, page), stored)
       /\ last_call' = IF shop["logo_url"] # ""
                       THEN Call("image", 1, IF stored THEN "returned" ELSE "swallowed")
                       ELSE last_call
       /\ pairs' = _collect_product_urls(page)
       /\ div_lookup' = DivLookup(page)
  /\ items' = <<>>
  /\ data' = NoData
  /\ structured' = 0
  /\ pi' = 1
  /\ pc' = "items"
  /\ UNCHANGED << exc, mainVars, getVars, reviews, sessionVars >>
  /\ UNCHANGED textVars

\* lines 317-368: one pass of the product loop
FetchProductWith(responses) ==
  /\ pc = "items" /\ pi <= Len(pairs)
  /\ \E r \in responses, stored \in BOOLEAN :
       /\ data' = DetailData(r)
       /\ last_call' = Call("product", 1,
                            IF r.kind = "error" THEN "swallowed" ELSE "returned")
       /\ IF Truthy(data') /\ RowRaises(data'.data)
          THEN /\ pc' = "crashed"
               /\ exc' = "AttributeError"
               /\ UNCHANGED << pi, items, structured >>
          ELSE /\ items' = Append(items,
                     WithImage(IF Truthy(data')
                               THEN _row_from_track_json(data'.data, shop)
                               ELSE MinimalRow(div_lookup, pairs[pi], shop),
                               stored))
               /\ structured' = structured + (IF Truthy(data') THEN 1 ELSE 0)
               /\ pi' = pi + 1
               /\ UNCHANGED << pc, exc >>
  /\ UNCHANGED << mainVars, shop, getVars, html, pairs, div_lookup, reviews,
                  sessionVars >>
  /\ UNCHANGED textVars

\* the product loop in a whole run, and on any detail response
FetchProduct == FetchProductWith(RunDetailResponses)
AnyFetchProduct == FetchProductWith(DetailResponses)

\* line 370: return items
FetchItemsReturn ==
  /\ pc = "items" /\ pi > Len(pairs)
  /\ pc' = "after_items"
  /\ UNCHANGED << exc, mainVars, shop, getVars, last_call, html, itemVars,
                  reviews, sessionVars >>
  /\ UNCHANGED textVars

\* NeedsSession with a fault: the pagination session is started for every shop
AlwaysSession(found) == TRUE

\* line 692: if not reviews
NeedsSession(found) == found = <<>>

\* lines 689-694: inline reviews first, the pagination session only without
InlineReviews ==
  /\ pc = "after_items"
  /\ reviews' = _parse_reviews_from_html(html, shop)
  /\ pc' = IF NeedsSession(reviews') THEN "session_init" ELSE "shop_return"
  /\ UNCHANGED << exc, mainVars, shop, getVars, last_call, html, itemVars,
                  sessionVars >>
  /\ UNCHANGED textVars

\* lines 700-701 and main 842-847
ShopReturn ==
  /\ pc = "shop_return"
  /\ shop' = Put(shop, "scraped_date", TODAY)
  /\ Collect(items, reviews, shop')
  /\ UNCHANGED << exc, args, by_type, types, ti, uploaded, last_call,
                  session_count, session_state, sessions, requests >>
  /\ UNCHANGED textVars

\* ------------------------------------------------------ fetch_reviews_for_shop
\* NewSession with a fault: every call reuses one shared session object
SharedSession(count) == 1

\* line 548: rev_session = requests.Session(), a new object on every call
NewSession(count) == count + 1

\* lines 566-571: the headers of every page request of the session
get_headers(token) == [RequestVerificationToken |-> token, Referer |-> shop["slug"]]

\* MorePages with a fault: the continuation flag alone is trusted
MorePagesFlagOnly(flag, found) == flag

\* line 621: the loop goes on to the next page
MorePages(flag, found) == flag /\ found # <<>>

\* lines 608-615: the fragment and the flag read from a response body
Fragment(r) == IF r.kind = "text" THEN r.doc ELSE Get(r.j, "html", EmptyDoc)
Flag(r) == IF r.kind = "text" THEN FALSE ELSE Get(r.j, "canLoad", FALSE)

\* a response after which the session asks for one more page
Continues(r) ==
  /\ r.kind \in {"text", "object"}
  /\ MorePages(Flag(r), _parse_reviews_from_html(Fragment(r), shop))

\* return from fetch_reviews_for_shop into fetch_shop_data (lines 694-698)
SessionReturns(state, its_reviews) ==
  /\ session_state' = state
  /\ reviews' = its_reviews
  /\ pc' = "shop_return"

\* lines 544-574: the fresh session, its shop page and the token
StartSessionWith(pages) ==
  /\ pc = "session_init"
  /\ rev_session' = NewSession(session_count)
  /\ session_count' = session_count + 1
  /\ all_rows' = <<>> /\ page_rows' = <<>> /\ rows' = <<>>
  /\ can_load' = FALSE /\ resp' = NoResp
  /\ \E failed \in BOOLEAN, page \in pages :
       LET token == IF failed THEN "" ELSE _get_csrf_token(page) IN
       /\ last_call' = Call("token_page", 1,
                            IF failed THEN "swallowed" ELSE "returned")
       /\ fresh_html' = IF failed THEN <<>> ELSE page
       /\ csrf_token' = token
       /\ sessions' = sessions \cup
            { [id |-> rev_session', shop |-> shop["slug"], token |-> token] }
       /\ IF token = ""
          THEN /\ SessionReturns("FAILED", <<>>)
               /\ page_no' = 0
          ELSE /\ session_state' = "TOKEN_ACQUIRED"
               /\ page_no' = 1
               /\ pc' = "page_request"
               /\ UNCHANGED reviews
  /\ UNCHANGED << exc, mainVars, shop, getVars, html, itemVars, requests >>
  /\ UNCHANGED textVars

StartSession == StartSessionWith(RunFreshPages)
AnyStartSession == StartSessionWith(FreshPages)

\* lines 577-598: one page request and the check of its status; the server
\* stops offering further pages at page last
RequestPageWith(responses, last) ==
  /\ pc = "page_request"
  /\ requests' = requests \cup
       { [id |-> rev_session, shop |-> shop["slug"], page |-> page_no,
          token |-> get_headers(csrf_token).RequestVerificationToken] }
  /\ \E r \in responses :
       /\ page_no >= last => ~Continues(r)
       /\ resp' = r
       /\ last_call' = Call("review_page", 1,
                            IF r.kind = "error" THEN "swallowed" ELSE "returned")
       /\ IF r.kind \in {"error", "status"}
          THEN SessionReturns("DONE", all_rows)
          ELSE /\ session_state' = "FETCHING_PAGE"
               /\ pc' = "page_process"
               /\ UNCHANGED reviews
  /\ UNCHANGED << exc, mainVars, shop, getVars, html, itemVars, rev_session,
                  session_count, fresh_html, csrf_token, page_no, all_rows,
                  can_load, rows, sessions, page_rows >>
  /\ UNCHANGED textVars

RequestPage == RequestPageWith(RunPageResponses, MaxRunPages)
AnyRequestPage == RequestPageWith(PageResponses, MaxPages)

\* lines 600-625: the body is decoded, its fragment parsed, the loop decided.
\* j.get on a JSON value that is no object raises AttributeError, which the
\* except clause (json.JSONDecodeError, ValueError) does not catch.
ProcessPage ==
  /\ pc = "page_process"
  /\ IF resp.kind = "value"
     THEN /\ pc' = "crashed"
          /\ exc' = "AttributeError"
          /\ session_state' = "RAISED"
          /\ UNCHANGED << reviews, page_no, all_rows, can_load, rows, page_rows >>
     ELSE /\ can_load' = Flag(resp)
          /\ rows' = _parse_reviews_from_html(Fragment(resp), shop)
          /\ all_rows' = all_rows \o rows'
          /\ page_rows' = Append(page_rows, rows')
          /\ IF MorePages(can_load', rows')
             THEN /\ page_no' = page_no + 1
                  /\ pc' = "page_request"
                  /\ UNCHANGED << reviews, session_state >>
             ELSE /\ SessionReturns("DONE", all_rows')
                  /\ UNCHANGED page_no
          /\ UNCHANGED exc
  /\ UNCHANGED << mainVars, shop, getVars, last_call, html, itemVars,
                  rev_session, session_count, fresh_html, csrf_token, resp,
                  sessions, requests >>
  /\ UNCHANGED textVars

\* ------------------------------------------------------------ upload_df_to_s3
\* lines 736-754: put_object succeeds, or its ClientError is re-raised
Upload(table, next) ==
  \E stored \in BOOLEAN :
    IF stored
    THEN /\ uploaded' = Append(uploaded, <<types[ti], table>>)
         /\ pc' = next
         /\ UNCHANGED exc
    ELSE /\ pc' = "crashed"
         /\ exc' = "ClientError"
         /\ UNCHANGED uploaded

\* line 856
UploadShops ==
  /\ pc = "upload_shops"
  /\ Upload("shops", "upload_items")
  /\ UNCHANGED << args, by_type, types, ti, si, all_items, all_reviews,
                  enriched, shop, getVars, last_call, html, itemVars, reviews,
                  sessionVars >>
  /\ UNCHANGED textVars

\* lines 858-861
UploadItems ==
  /\ pc = "upload_items"
  /\ IF all_items # <<>>
     THEN Upload("items", "upload_reviews")
     ELSE pc' = "upload_reviews" /\ UNCHANGED << exc, uploaded >>
  /\ UNCHANGED << args, by_type, types, ti, si, all_items, all_reviews,
                  enriched, shop, getVars, last_call, html, itemVars, reviews,
                  sessionVars >>
  /\ UNCHANGED textVars

\* lines 863-872, and the step to the next type
UploadReviews ==
  /\ pc = "upload_reviews"
  /\ IF all_reviews # <<>>
     THEN Upload("reviews", "type_loop")
     ELSE pc' = "type_loop" /\ UNCHANGED << exc, uploaded >>
  /\ ti' = IF pc' = "type_loop" THEN ti + 1 ELSE ti
  /\ UNCHANGED << args, by_type, types, si, all_items, all_reviews, enriched,
                  shop, getVars, last_call, html, itemVars, reviews,
                  sessionVars >>
  /\ UNCHANGED textVars

\* ------------------------------------------------------------- specifications
Next ==
  \/ MainStart
  \/ GetAttempt
  \/ ListingUnavailable
  \/ ListingFetched
  \/ NextType
  \/ NextShop
  \/ ShopPageFailed
  \/ ShopPageFetched
  \/ FetchProduct
  \/ FetchItemsReturn
  \/ InlineReviews
  \/ StartSession
  \/ RequestPage
  \/ ProcessPage
  \/ ShopReturn
  \/ UploadShops
  \/ UploadItems
  \/ UploadReviews

\* a whole run of main()
Spec == Init /\ [][Next]_vars

\* one pagination session, for any shop of the pool that has a slug
InitSession ==
  /\ pc = "session_init"
  /\ args = [category |-> "", list_categories |-> FALSE]
  /\ shop \in { WithLogo(sh, FALSE) : sh \in { x \in ShopPool : x["slug"] # "" } }
  /\ html = NoPage
  /\ pairs = <<>> /\ div_lookup = <<>> /\ pi = 0 /\ items = <<>>
  /\ structured = 0
  /\ Defaults
  /\ TextDefaults

NextSession ==
  \/ AnyStartSession
  \/ AnyRequestPage
  \/ ProcessPage

SpecSession == InitSession /\ [][NextSession]_vars

\* fetch_shop_items on any shop page
InitItems ==
  /\ pc = "items"
  /\ args = [category |-> "", list_categories |-> FALSE]
  /\ shop = WithLogo(ListedShop("A", "Flowers", "a", "l.png"), TRUE)
  /\ html \in ItemPages
  /\ pairs = _collect_product_urls(html)
  /\ div_lookup = DivLookup(html)
  /\ pi = 1 /\ items = <<>> /\ structured = 0
  /\ Defaults
  /\ TextDefaults

NextItems ==
  \/ AnyFetchProduct
  \/ FetchItemsReturn

SpecItems == InitItems /\ [][NextItems]_vars

\* _parse_reviews_from_html on any document
InitReviews ==
  /\ pc = "after_items"
  /\ args = [category |-> "", list_categories |-> FALSE]
  /\ shop = WithLogo(ListedShop("A", "Flowers", "a", "l.png"), TRUE)
  /\ html \in ReviewDocs
  /\ pairs = <<>> /\ div_lookup = <<>> /\ pi = 1 /\ items = <<>>
  /\ structured = 0
  /\ Defaults
  /\ TextDefaults

SpecReviews == InitReviews /\ [][InlineReviews]_vars

\* _parse_reviewer on any string
InitReviewer ==
  /\ pc = "parse_reviewer"
  /\ args = [category |-> "", list_categories |-> FALSE]
  /\ shop = NoShop
  /\ html = NoPage
  /\ pairs = <<>> /\ div_lookup = <<>> /\ pi = 0 /\ items = <<>>
  /\ structured = 0
  /\ Defaults
  /\ text_in \in ReviewerStrings
  /\ raw_text = <<>>
  /\ scan_i = 0 /\ scan_j = 0 /\ in_double = FALSE
  /\ result = <<>> /\ buf = <<>>
  /\ returned = <<>> /\ applied = 0 /\ first_ret = <<>>

\* lines 102-114
ParseReviewer ==
  /\ pc = "parse_reviewer"
  /\ returned' = _parse_reviewer(text_in)
  /\ pc' = "parsed"
  /\ UNCHANGED << exc, scrapeVars, text_in, scanVars, applied, first_ret >>

SpecReviewer == InitReviewer /\ [][ParseReviewer]_vars

\* _js_obj_to_json on any text
InitNormalize ==
  /\ pc = "normalize"
  /\ args = [category |-> "", list_categories |-> FALSE]
  /\ shop = NoShop
  /\ html = NoPage
  /\ pairs = <<>> /\ div_lookup = <<>> /\ pi = 0 /\ items = <<>>
  /\ structured = 0
  /\ Defaults
  /\ text_in \in JsTexts
  /\ raw_text = <<>>
  /\ scan_i = 0 /\ scan_j = 0 /\ in_double = FALSE
  /\ result = <<>> /\ buf = <<>>
  /\ returned = <<>> /\ applied = 0 /\ first_ret = <<>>

\* lines 191-206: steps 1 and 2, and the scan set up
Prepare ==
  /\ pc = "normalize"
  /\ raw_text' = ReplaceEntities(DecodeCalls(text_in))
  /\ result' = <<>>
  /\ scan_i' = 0
  /\ in_double' = FALSE
  /\ pc' = "scan"
  /\ UNCHANGED << exc, scrapeVars, text_in, scan_j, buf, returned, applied,
                  first_ret >>

\* lines 207-214 and 230-232: one pass of the outer loop up to the inner one
ScanChar ==
  /\ pc = "scan" /\ scan_i < Len(raw_text)
  /\ IF ~InRange(raw_text, scan_i)
     THEN /\ pc' = "crashed" /\ exc' = "IndexError"
          /\ UNCHANGED << scan_i, scan_j, in_double, result, buf >>
     ELSE LET ch == At(raw_text, scan_i) IN
          /\ IF ch = DQ
             THEN /\ in_double' = ~in_double
                  /\ result' = Append(result, ch)
                  /\ scan_i' = scan_i + 1
                  /\ UNCHANGED << pc, scan_j, buf >>
             ELSE IF ch = SQ /\ ~in_double
             THEN /\ scan_j' = scan_i + 1
                  /\ buf' = <<>>
                  /\ pc' = "collect"
                  /\ UNCHANGED << scan_i, in_double, result >>
             ELSE /\ result' = Append(result, ch)
                  /\ scan_i' = scan_i + 1
                  /\ UNCHANGED << pc, scan_j, in_double, buf >>
          /\ UNCHANGED exc
  /\ UNCHANGED << scrapeVars, text_in, raw_text, returned, applied, first_ret >>

\* lines 225-229: the run is emitted between double quotes, i = j + 1
CloseRun ==
  /\ result' = result \o <<DQ>> \o buf \o <<DQ>>
  /\ scan_i' = scan_j + 1
  /\ pc' = "scan"
  /\ UNCHANGED << exc, scan_j, buf >>

\* lines 216-229: one pass of the inner loop, or its end
CollectRun ==
  /\ pc = "collect"
  /\ IF MoreToCollect(scan_j, Len(raw_text))
     THEN IF ~InRange(raw_text, scan_j)
          THEN /\ pc' = "crashed" /\ exc' = "IndexError"
               /\ UNCHANGED << scan_i, scan_j, result, buf >>
          ELSE LET c == At(raw_text, scan_j) IN
               IF c = SQ THEN CloseRun
               ELSE /\ buf' = buf \o (IF c = DQ THEN <<BS, DQ>> ELSE <<c>>)
                    /\ scan_j' = scan_j + 1
                    /\ UNCHANGED << pc, exc, scan_i, result >>
     ELSE CloseRun
  /\ UNCHANGED << scrapeVars, text_in, raw_text, in_double, returned, applied,
                  first_ret >>

\* lines 233-237: the loop is left, step 4 applied, the text returned
ScanEnd ==
  /\ pc = "scan" /\ ~(scan_i < Len(raw_text))
  /\ returned' = DropTrailingCommas(result)
  /\ applied' = applied + 1
  /\ pc' = "returned"
  /\ UNCHANGED << exc, scrapeVars, text_in, scanVars, first_ret >>

\* _js_obj_to_json called once more, on what it returned
Reapply ==
  /\ pc = "returned" /\ applied = 1
  /\ first_ret' = returned
  /\ text_in' = returned
  /\ pc' = "normalize"
  /\ UNCHANGED << exc, scrapeVars, scanVars, returned, applied >>

NextNormalize ==
  \/ Prepare
  \/ ScanChar
  \/ CollectRun
  \/ ScanEnd
  \/ Reapply

SpecNormalize == InitNormalize /\ [][NextNormalize]_vars

\* ====================================================================== claims
\* the pages the current session has requested so far
PagesRequested == { r.page : r \in { q \in requests : q.id = rev_session } }

C3_MalformedPageEndsDone ==
  (resp.kind \in {"error", "status", "text", "value"} /\ pc # "page_process") =>
    /\ session_state = "DONE"
    /\ pc = "shop_return"
    /\ exc = ""
    /\ reviews = all_rows

\* no input tag of the page carries the token field name and a value
NoTokenIn(tags) == \A i \in 1..Len(tags) : ~(tags[i].named /\ tags[i].value # "")

\* C4: if the fresh shop page yields no token (or its fetch failed), the session
\* is FAILED: no LoadReviews request is sent, the result is empty and nothing is
\* raised.
C4_NoTokenNoRequests ==
  (session_state # "NONE" /\ NoTokenIn(fresh_html)) =>
    /\ session_state = "FAILED"
    /\ PagesRequested = {}
    /\ reviews = <<>>
    /\ exc = ""
    /\ pc = "shop_return"

\* C4 witness: a fetched page with input tags, none of them the token
C4_Witness ==
  /\ session_state = "FAILED"
  /\ fresh_html = <<Tag(FALSE, "t1")>>
  /\ requests = {}

\* C5: every session started in a run is a session object of its own, serving
\* one shop with the token it acquired; every page request carries the token
\* and the shop of the session that sent it.
C5_TokenIsolation ==
  /\ Cardinality(sessions) = session_count
  /\ \A a \in sessions, b \in sessions : a.id = b.id => a = b
  /\ \A r \in requests :
       \E a \in sessions :
         a.id = r.id /\ a.shop = r.shop /\ a.token = r.token /\ a.token # ""
  /\ pc \in {"page_request", "page_process"} =>
       [id |-> rev_session, shop |-> shop["slug"], token |-> csrf_token] \in sessions

\* C5 witness: two shops of one run, each paged with its own session and token
C5_Witness ==
  \E r \in requests, q \in requests :
    r.shop # q.shop /\ r.id # q.id /\ r.token # q.token

\* C6: once the shop listing has been fetched no failure ends the run: the
\* only exception that may leave main() is the RuntimeError of the listing
\* fetch.
C6_OnlyListingAborts ==
  pc = "crashed" => (exc = "RuntimeError" /\ get_for = "listing")

\* C7: every network call that failed was retried up to the maximum number of
\* attempts, with a growing delay between attempts, and then raised to its
\* caller.
C7_EveryCallRetriesThenRaises ==
  last_call.outcome \in {"swallowed", "raised"} =>
    /\ last_call.attempts = MaxAttempts
    /\ last_call.outcome = "raised"
    /\ pc = "get_raised" =>
         /\ Len(slept) = MaxAttempts - 1
         /\ \A i \in 1..(Len(slept) - 1) : slept[i + 1] > slept[i]

\* the identifier a container provides: its data-content-name without prefix
Identifier(div) == RemoveAll(OrEmpty(div.name), "Product_")

\* C8: with no structured-data block available, a shop page with N product
\* containers yields exactly N minimal records, record i built from container
\* i, with a product_id whenever that container provides an identifier.
C8_OneMinimalRecordPerContainer ==
  (pc = "after_items" /\ structured = 0) =>
    /\ Len(items) = Len(html.containers)
    /\ \A i \in 1..Len(items) :
         /\ items[i].product_name = <<>>
         /\ items[i].product_id = Identifier(html.containers[i])

\* C9: every product of the shop yields exactly one record: the minimal record
\* of its listing container when the detail fetch failed or the trackJson block
\* is absent or unparseable (an empty block counted as absent), and otherwise
\* the record mapped from the block; no product is dropped.
C9_OneRecordPerProduct ==
  /\ pc \in {"items", "after_items"}
  /\ Len(items) = pi - 1
  /\ (pc = "after_items" => Len(items) = Len(pairs))
  /\ items # <<>> =>
       LET item == items[Len(items)]
           pair == pairs[Len(items)]
           row  == IF Truthy(data) THEN _row_from_track_json(data.data, shop)
                   ELSE MinimalRow(div_lookup, pair, shop)
       IN \A f \in DOMAIN row : item[f] = row[f]

\* the elements of the markup, as the strategy that produced the result sees them
Elements == IF html.dom # <<>> THEN html.dom ELSE html.raw

HasToken(sub, toks) == sub.present /\ \E i \in 1..Len(sub.val) : sub.val[i] \in toks

\* C10: every review element of the markup yields exactly one record, in
\* document order, and no record comes from anything else; a sub-field the
\* element lacks is left empty (None for the rating) and one it has is kept;
\* an element is never dropped for lacking sub-fields.
C10_OneRecordPerElement ==
  pc # "after_items" =>
    /\ Len(reviews) = Len(Elements)
    /\ \A i \in 1..Len(reviews) :
         LET el == Elements[i]
             row == reviews[i]
         IN /\ row.shop_name = shop["name"]
            /\ ~el.text.present => row.review_text = <<>>
            /\ HasToken(el.text, {"w"}) => row.review_text # <<>>
            /\ ~el.name.present => (row.reviewer_name = <<>> /\ row.review_date = <<>>)
            /\ HasToken(el.name, {"w"}) => row.reviewer_name # <<>>
            /\ HasToken(el.name, {"w", "d"}) =>
                 (row.reviewer_name # <<>> \/ row.review_date # <<>>)
            /\ ~el.rating.present => row.star_rating = None
            /\ (el.rating.present /\ el.rating.val.hasWidth) => row.star_rating # None

\* C10 witness: an element with no sub-element at all sits between two others
\* and has its record, every field of it empty
C10_Witness ==
  /\ pc # "after_items"
  /\ Len(reviews) = 2
  /\ html.dom = <<ElEmpty, ElFull>>
  /\ reviews[1].review_text = <<>> /\ reviews[1].reviewer_name = <<>>
  /\ reviews[1].review_date = <<>> /\ reviews[1].star_rating = None
  /\ reviews[2].reviewer_name = <<"w">> /\ reviews[2].review_date = <<"d">>

\* C11: all shop records handed to storage for one type carry the same set of
\* fields, whether the shop was skipped for having no slug, had its page fetch
\* fail, or was fully processed; and so do all product records, structured or
\* minimal.
C11_StableColumnSets ==
  pc = "upload_shops" =>
    /\ \A i \in 1..Len(enriched), j \in 1..Len(enriched) :
         DOMAIN enriched[i] = DOMAIN enriched[j]
    /\ \A i \in 1..Len(all_items), j \in 1..Len(all_items) :
         DOMAIN all_items[i] = DOMAIN all_items[j]

\* C14: the result of review extraction is the rows of the class-marker
\* strategy whenever that strategy found any element, and the rows of the
\* raw-markup strategy only when it found none; never rows of both.
C14_FirstNonEmptyStrategy ==
  pc # "after_items" =>
    /\ html.dom # <<>> =>
         reviews = [i \in 1..Len(html.dom) |-> RowFromElement(shop, html.dom[i])]
    /\ html.dom = <<>> =>
         reviews = [i \in 1..Len(html.raw) |-> RowFromBlock(shop, html.raw[i])]

\* C14 witness: both strategies would find elements, only tier 1 is returned
C14_Witness ==
  /\ pc # "after_items"
  /\ Len(html.dom) = 1 /\ Len(html.raw) = 2
  /\ Len(reviews) = 1

\* the listed record of the shop being processed, and of the i-th shop done
Listed(i) == by_type[types[ti]][i]

InShopLoop ==
  pc \in {"shop_loop", "get", "got", "get_raised", "items", "after_items",
          "session_init", "page_request", "page_process", "shop_return",
          "upload_shops", "upload_items", "upload_reviews", "crashed"}
  /\ ti \in 1..Len(types)

Processing ==
  InShopLoop /\ pc \notin {"shop_loop", "upload_shops", "upload_items",
                           "upload_reviews", "crashed"}

Writable == {"rating", "ratings_count", "s3_image_path", "scraped_date"}

\* rec is orig with nothing but writable fields written or added
FrameOK(rec, orig) ==
  /\ DOMAIN orig \subseteq DOMAIN rec
  /\ (DOMAIN rec) \ (DOMAIN orig) \subseteq Writable
  /\ \A f \in (DOMAIN orig) \ Writable : rec[f] = orig[f]

FrameInv ==
  /\ Processing => FrameOK(shop, Listed(si))
  /\ InShopLoop => \A i \in 1..Len(enriched) : FrameOK(enriched[i], Listed(i))

\* C17: while a shop is processed and after it, its record differs from the
\* listed one in rating, ratings_count, s3_image_path and scraped_date at most
\* (name, slug and type never change); a shop whose page fetch failed is
\* returned exactly as listed.
C17_ShopRecordFrame ==
  [][ /\ FrameInv'
      /\ (pc = "get_raised" /\ get_for = "shop") =>
           (shop' = Listed(si) /\ enriched' = Append(enriched, Listed(si)))
    ]_vars

\* C17 witness: the first shop of a type was processed and got a new rating,
\* an image path and a scrape date; the second one's page fetch failed
C17_Witness ==
  /\ pc = "shop_loop" /\ Len(enriched) = 2
  /\ enriched[1]["rating"] = 40 /\ Listed(1)["rating"] = 45
  /\ enriched[1]["s3_image_path"] # <<>>
  /\ enriched[1]["scraped_date"] = TODAY
  /\ Listed(2)["slug"] # ""
  /\ enriched[2] = Listed(2)

\* C18: a pagination session is entered only from a shop page whose own
\* markup gave zero review records; sessions and LoadReviews requests are
\* only ever added for such a shop; the reviews returned for a shop are its
\* inline rows when there are any and else the rows of its session; a failed
\* shop page fetch adds no session, no request and no review.
C18_OneReviewSource ==
  [][ LET inline == _parse_reviews_from_html(html, shop) IN
      /\ (pc' = "session_init" /\ pc # "session_init") =>
           (pc = "after_items" /\ inline = <<>>)
      /\ (requests' # requests \/ sessions' # sessions) =>
           /\ inline = <<>>
           /\ last_call.kind # "shop" \/ last_call.outcome = "returned"
           /\ \A r \in (requests' \ requests) \cup (sessions' \ sessions) :
                r.shop = shop["slug"]
      /\ (pc' = "shop_return" /\ pc # "shop_return") =>
           IF inline # <<>>
           THEN reviews' = inline /\ session_state' = "NONE" /\ rev_session' = 0
           ELSE reviews' = all_rows' /\ session_state' \in {"FAILED", "DONE"}
      /\ (pc = "get_raised" /\ get_for = "shop") =>
           /\ requests' = requests /\ sessions' = sessions
           /\ all_reviews' = all_reviews
           /\ pc' = "shop_loop"
    ]_vars

\* C18 witness: of two shops of one type the first gave inline reviews and
\* the second, with none inline, got its reviews from the one session started
C18_Witness ==
  /\ pc = "shop_return" /\ si = 2
  /\ all_reviews # <<>>
  /\ session_count = 1 /\ session_state = "DONE"
  /\ html.dom = <<>> /\ html.raw = <<>>
  /\ reviews # <<>> /\ reviews = all_rows
  /\ \A r \in requests : r.id = rev_session

\* the index of the "on" in a string of the form '<text> on DD/MM/YYYY'
\* (some text, whitespace, on, whitespace, and a date that ends the string),
\* or 0 for a string of another form
OnForm(str) ==
  LET n == Len(str)
      ks == { k \in 3..(n - 2) :
                /\ str[n] = "d"
                /\ str[k] = "on"
                /\ AllSpace(str, k + 1, n - 1)
                /\ str[k - 1] \in Space }
  IN IF ks = {} THEN 0 ELSE CHOOSE k \in ks : TRUE

\* the three-way rule, names taken without the whitespace around them
ThreeWayRule(str) ==
  IF OnForm(str) # 0 THEN <<Strip(SubSeq(str, 1, OnForm(str) - 1)), <<"d">> >>
  ELSE IF str = <<"d">> THEN << <<>>, <<"d">> >>
  ELSE <<Strip(str), <<>> >>

\* C13: for every input string the split returns, without raising, (text,
\* date) when the string has the form '<text> on DD/MM/YYYY', ('', date) when
\* the whole string is exactly a date, and (whole string, '') otherwise.
C13_ThreeWaySplit ==
  pc = "parsed" => (exc = "" /\ returned = ThreeWayRule(text_in))

\* the string value of the member of an object literal Literal(c)
Content(t) == SubSeq(t, 7, Len(t) - 2)

\* C12: for an object literal whose string values are single-quoted and hold
\* double quotes, the normalizer's output parses as an object and each string
\* value of the parsed object is the content of the original string.
C12_RoundTrip ==
  (pc = "returned" /\ applied = 1 /\ text_in \in Literals) =>
    LET parsed == json_loads(returned) IN
    /\ parsed.ok
    /\ parsed.key = <<"a">>
    /\ parsed.value = Content(text_in)

\* the scan is inside its input and nothing was raised
ScanSafe ==
  /\ pc # "crashed" /\ exc = ""
  /\ pc \in {"scan", "collect"} => scan_i \in 0..(Len(raw_text) + 1)
  /\ pc = "collect" =>
       (scan_i < Len(raw_text) /\ scan_j \in (scan_i + 1)..Len(raw_text))

Scanning == pc \in {"scan", "collect"}

\* what is left to scan: twice the characters not yet passed by the index in
\* use, the inner loop counting one less than the outer one at the same index
Measure ==
  IF pc = "scan" THEN 2 * (Len(raw_text) + 2 - scan_i)
  ELSE 2 * (Len(raw_text) + 2 - scan_j) - 1

\* what one step of the scan reads and emits
ScanStep ==
  /\ (pc = "scan" /\ pc' # "returned") => InRange(raw_text, scan_i)
  /\ (pc = "collect" /\ scan_j' # scan_j) => InRange(raw_text, scan_j)
  /\ (pc = "scan" /\ scan_i < Len(raw_text) /\ in_double
        /\ At(raw_text, scan_i) = SQ) =>
       (result' = Append(result, SQ) /\ in_double' /\ scan_i' = scan_i + 1)
  /\ (pc = "collect" /\ scan_j < Len(raw_text) /\ At(raw_text, scan_j) = DQ) =>
       (buf' = buf \o <<BS, DQ>> /\ scan_j' = scan_j + 1)
  /\ (pc = "collect" /\ scan_j = Len(raw_text)) =>
       /\ pc' = "scan"
       /\ scan_i' > Len(raw_text)
       /\ result' = result \o <<DQ>> \o buf \o <<DQ>>

\* C15: on every input the scan of step 3 ends (it can always take a step,
\* and every step brings a measure that stays above zero down), reads no
\* index outside its input and raises nothing; a single-quoted run without
\* its closing quote is taken to the end of the input, a single quote met
\* inside double quotes is emitted as it is, and a double quote inside a
\* single-quoted run is emitted with a backslash before it.
C15_ScanTerminatesInRange ==
  /\ [](ScanSafe /\ (Scanning => ENABLED NextNormalize))
  /\ [][ /\ ScanStep
         /\ (Scanning /\ Scanning') => (Measure' < Measure /\ Measure' > 0)
       ]_vars

\* C15 witness: a single quote between double quotes, then a single-quoted
\* run that holds a double quote and is never closed
C15_Witness ==
  /\ pc = "returned" /\ applied = 1
  /\ text_in = <<DQ, SQ, DQ, SQ, DQ>>
  /\ returned = <<DQ, SQ, DQ, DQ, BS, DQ, DQ>>

\* C16: the normalizer returns a text that is already valid double-quoted
\* JSON unchanged, and returns its own output unchanged.
C16_Idempotent ==
  pc = "returned" =>
    /\ applied = 2 => returned = first_ret
    /\ (applied = 1 /\ json_loads(text_in).ok) => returned = text_in

====
